---- MODULE Spec2Model ----
(***************************************************************************)
(* A model of the CHIP-8 emulator of c8.c: the machine state (CPU_t), the  *)
(* memory (RAM_t), the display bitmap (Display_t) and the operations       *)
(* cpu_execute, cpu_timer_tick, cpu_poll_keystate, display_draw_row,       *)
(* ram_load_rom and the pacing loop of main.                               *)
(*                                                                         *)
(* A 64-bit display row is the set of its set bit positions (columns),     *)
(* because the rows do not fit the model checker's integers; every other   *)
(* integer keeps its C width by an explicit reduction (U8, U16).           *)
(***************************************************************************)
EXTENDS Integers, Sequences, FiniteSets, TLC

VARIABLES
    pc,      \* cpu.pc, c8_address_t
    v,       \* cpu.v[16]
    i,       \* cpu.i
    sp,      \* cpu.sp, uint8_t
    stack,   \* cpu.stack[UINT8_MAX]
    halt,    \* cpu.flags.HALT
    input,   \* cpu.input, the 16-bit key latch
    delay,   \* cpu.delay
    sound,   \* cpu.sound
    ram,     \* the RAM_SIZE bytes cpu.ram points to
    p,       \* display.p[DISPLAY_H], each row the set of its set columns
    exited,  \* the process has terminated abnormally (exit(-1) or a crash)
    cycles,  \* main's cycle counter
    running, \* main's pacing loop has not been left
    steps,   \* number of direct calls made so far by a harness (bounded)
    last,    \* history: the operation performed last and its arguments
    calls,   \* history: the calls not yet returned from, <<address, sp>>
    timed    \* history: the value FX15 loaded last, and the ticks since

vars == <<pc, v, i, sp, stack, halt, input, delay, sound, ram, p, exited,
          cycles, running, steps, last, calls, timed>>

machine == <<pc, v, i, sp, stack, halt, input, delay, sound, ram, p, exited>>

(***************************************************************************)
(* Program constants.                                                      *)
(***************************************************************************)
DISPLAY_W == 64
DISPLAY_H == 32
ROM_OFFSET == 512
BUILTIN_SPRITES_OFFSET == 256
RAM_SIZE == 4096
INSTRUCTION_LENGTH == 2
NREGS == 16
UINT8_MAX == 255
Pow8 == 256
Pow16 == 65536
RETURN_WORD == 238
EOF_BYTE == 255
GLYPH_STRIDE == 6
LITERAL_NELEMS == 6
TICK_DIVIDER == 8
WORD_BITS == 64

\* NELEMS(cpu->stack)
STACK_NELEMS == UINT8_MAX

(***************************************************************************)
(* Bounds of the model.                                                    *)
(***************************************************************************)
MaxSteps == 3
MaxDraws == 2
MaxLoads == 2

(***************************************************************************)
(* Fixed-width arithmetic and the bitwise operators of C.                  *)
(***************************************************************************)
U8(n) == n % Pow8

U16(n) == n % Pow16

RECURSIVE BitAnd(_, _)
BitAnd(a, b) ==
    IF a = 0 \/ b = 0 THEN 0
    ELSE (a % 2) * (b % 2) + 2 * BitAnd(a \div 2, b \div 2)

RECURSIVE BitOr(_, _)
BitOr(a, b) ==
    IF a = 0 THEN b
    ELSE IF b = 0 THEN a
    ELSE (IF a % 2 = 1 \/ b % 2 = 1 THEN 1 ELSE 0) + 2 * BitOr(a \div 2, b \div 2)

\* The set bit positions of a byte.
ByteBits(b) == {k \in 0..7 : (b \div (2^k)) % 2 = 1}

SetMax(S) == CHOOSE m \in S : \A k \in S : k <= m

\* a > b for two 64-bit words given as their sets of set bits.
WordGt(a, b) ==
    LET d == (a \ b) \cup (b \ a)
    IN  d # {} /\ SetMax(d) \in a

(***************************************************************************)
(* Instruction fields.                                                     *)
(***************************************************************************)
OpOf(instruction) == (instruction \div 4096) % 16

XOf(instruction) == (instruction \div 256) % 16

YOf(instruction) == (instruction % 256) \div 16

NOf(instruction) == instruction % 16

NNOf(instruction) == instruction % 256

NNNOf(instruction) == instruction % 4096

(***************************************************************************)
(* The machine as one record, for the operators that model the C functions.*)
(***************************************************************************)
Cpu ==
    [pc |-> pc, v |-> v, i |-> i, sp |-> sp, stack |-> stack, halt |-> halt,
     input |-> input, delay |-> delay, sound |-> sound, ram |-> ram, p |-> p,
     exited |-> exited]

Becomes(c) ==
    /\ pc' = c.pc
    /\ v' = c.v
    /\ i' = c.i
    /\ sp' = c.sp
    /\ stack' = c.stack
    /\ halt' = c.halt
    /\ input' = c.input
    /\ delay' = c.delay
    /\ sound' = c.sound
    /\ ram' = c.ram
    /\ p' = c.p
    /\ exited' = c.exited

(***************************************************************************)
(* Memory.                                                                 *)
(***************************************************************************)
\* ram_get_byte: the address is in range (the caller handles the exit).
InRam(address) == address < RAM_SIZE

\* A write that wraps the address around to low memory.
RamWriteByteWrapping(c, address, byte) ==
    IF c.exited THEN c
    ELSE [c EXCEPT !.ram[address % RAM_SIZE] = byte]

\* ram_write_byte on the machine record; exit(-1) beyond the RAM.
RamWriteByte(c, address, byte) ==
    IF c.exited THEN c
    ELSE IF ~InRam(address) THEN [c EXCEPT !.exited = TRUE]
    ELSE [c EXCEPT !.ram[address] = byte]

\* ram_load_rom on [ram, ok]: feof is true only after a read has failed, so
\* the loop runs once more than the stream has bytes and stores fgetc's EOF as
\* a byte; the loop exits the process when the cursor reaches RAM_SIZE.
RamLoadRom(m, offset, rom) ==
    LET n == Len(rom)
    IN  IF ~m.ok THEN m
        ELSE [ram |-> [a \in 0..(RAM_SIZE - 1) |->
                          IF a >= offset /\ a < offset + n THEN rom[a - offset + 1]
                          ELSE IF a = offset + n THEN EOF_BYTE
                          ELSE m.ram[a]],
              ok |-> offset + n < RAM_SIZE]

ZeroRam == [a \in 0..(RAM_SIZE - 1) |-> 0]

(***************************************************************************)
(* Choices the C code leaves to its environment: the value of rand(), and  *)
(* what undefined behaviour does (a shift of a 64-bit word by 64 or more,  *)
(* an access past the end of display.p: the process crashes, or the word   *)
(* lies in memory the model does not hold, or it lies in the array _ram    *)
(* that main declares next to the display).                                *)
(***************************************************************************)
Rands == {0, 90, 255, 4095}

ShiftOutcomes == {"mask", "zero"}

OobOutcomes == {"crash", "stray", "ram"}

Oracles == [rand : Rands, shift : ShiftOutcomes, oob : OobOutcomes, ret : BOOLEAN]

NoOracle == [rand |-> 0, shift |-> "mask", oob |-> "crash", ret |-> FALSE]

(***************************************************************************)
(* Display.                                                                *)
(***************************************************************************)
\* The three swaps that mirror the row byte (nibbles, pairs, bits).
Mirror(row) ==
    LET r1 == U8(BitOr(BitAnd(row, 240) \div 16, BitAnd(row, 15) * 16))
        r2 == U8(BitOr(BitAnd(r1, 204) \div 4, BitAnd(r1, 51) * 4))
    IN  U8(BitOr(BitAnd(r2, 170) \div 2, BitAnd(r2, 85) * 2))

\* ((uint64_t)row) << x as a set of bits; the shift is undefined for x >= 64
\* (the count is masked to six bits, or every bit is shifted out).
ShiftedRow(row, x, o) ==
    IF x < WORD_BITS
    THEN {k + x : k \in ByteBits(row)} \cap (0..(WORD_BITS - 1))
    ELSE IF o.shift = "mask"
    THEN {k + (x % WORD_BITS) : k \in ByteBits(row)} \cap (0..(WORD_BITS - 1))
    ELSE {}

\* A draw that sets the pixels instead of flipping them.
XorAsOr(a, b) == a \cup b

Xor(a, b) == (a \ b) \cup (b \ a)

\* display_draw_row: [p, unset, crashed]. A row index past the bitmap is an
\* access outside display.p: the process crashes, or memory that is not the
\* bitmap is read and written and the returned value is arbitrary.
DisplayDrawRow(bitmap, row, x, y, o) ==
    IF y >= DISPLAY_H
    THEN [p |-> bitmap, unset |-> o.ret, crashed |-> (o.oob = "crash")]
    ELSE LET before == bitmap[y]
             after == Xor(before, ShiftedRow(Mirror(row), x, o))
         IN  [p |-> [bitmap EXCEPT ![y] = after],
              unset |-> WordGt(before, after),
              crashed |-> FALSE]

\* The byte with the set bits S.
BitsByte(S) ==
    LET bit(k) == IF k \in S THEN 2^k ELSE 0
    IN  bit(0) + bit(1) + bit(2) + bit(3) + bit(4) + bit(5) + bit(6) + bit(7)

\* The row index at which display.p[y] is the first word of _ram in main:
\* the 32 rows are followed by the renderer pointer and eight bytes of padding.
StrayBase == DISPLAY_H + 2

\* display->p[y] ^= word for y past the bitmap, when the word lies in _ram:
\* the bytes j..7 of the little-endian word at 8 * (y - StrayBase).
RECURSIVE StrayXor(_, _, _, _)
StrayXor(m, y, word, j) ==
    LET a == 8 * (y - StrayBase) + j
    IN  IF j > 7 \/ y < StrayBase \/ ~InRam(a) THEN m
        ELSE StrayXor([m EXCEPT ![a] = BitsByte(Xor(ByteBits(@),
                                          {k - 8 * j : k \in word \cap ((8 * j)..(8 * j + 7))}))],
                      y, word, j + 1)

\* display_clear
ClearDisplay == [y \in 0..(DISPLAY_H - 1) |-> {}]

(***************************************************************************)
(* cpu_execute, one operator per branch.                                   *)
(***************************************************************************)
\* cpu->pc += INSTRUCTION_LENGTH
Advance(c) == [c EXCEPT !.pc = U16(c.pc + INSTRUCTION_LENGTH)]

Halted(c) == [c EXCEPT !.halt = TRUE]

\* 00EE: the guard of the underrun branch.
StackUnderrun(c) == c.sp < 1

\* A return that falls through to the advance of PC when it halts.
ExecReturnAdvancing(c) ==
    IF StackUnderrun(c) THEN Advance(Halted(c))
    ELSE Advance([c EXCEPT !.sp = U8(c.sp - 1), !.pc = c.stack[U8(c.sp - 1)]])

\* 00EE
ExecReturn(c) ==
    IF StackUnderrun(c) THEN Halted(c)
    ELSE Advance([c EXCEPT !.sp = U8(c.sp - 1), !.pc = c.stack[U8(c.sp - 1)]])

\* 1NNN
ExecJump(c, instruction) == [c EXCEPT !.pc = NNNOf(instruction)]

\* An overflow guard that never fires.
StackOverflowNever(c) == FALSE

\* An overflow guard that fires one call early.
StackOverflowEarly(c) == c.sp >= STACK_NELEMS - 1

\* 2NNN: the guard of the overflow branch.
StackOverflow(c) == c.sp = STACK_NELEMS

\* A call that saves the address of the next instruction.
ExecCallPushingNext(c, instruction) ==
    IF StackOverflow(c) THEN Halted(c)
    ELSE [c EXCEPT !.stack[c.sp] = U16(c.pc + INSTRUCTION_LENGTH),
                   !.sp = U8(c.sp + 1),
                   !.pc = NNNOf(instruction)]

\* 2NNN
ExecCall(c, instruction) ==
    IF StackOverflow(c) THEN Halted(c)
    ELSE [c EXCEPT !.stack[c.sp] = c.pc,
                   !.sp = U8(c.sp + 1),
                   !.pc = NNNOf(instruction)]

\* 3XNN
ExecSkipEq(c, instruction) ==
    Advance(IF c.v[XOf(instruction)] = NNOf(instruction) THEN Advance(c) ELSE c)

\* 4XNN
ExecSkipNe(c, instruction) ==
    Advance(IF c.v[XOf(instruction)] # NNOf(instruction) THEN Advance(c) ELSE c)

\* A 6XNN that advances PC twice.
ExecSetSkipping(c, instruction) ==
    Advance(Advance([c EXCEPT !.v[XOf(instruction)] = NNOf(instruction)]))

\* 6XNN
ExecSet(c, instruction) ==
    Advance([c EXCEPT !.v[XOf(instruction)] = NNOf(instruction)])

\* A 7XNN that leaves the carry of the addition in V[F].
ExecAddWithCarry(c, instruction) ==
    LET x == XOf(instruction)
        sum == c.v[x] + NNOf(instruction)
        v1 == [c.v EXCEPT ![15] = IF sum > UINT8_MAX THEN 1 ELSE 0]
    IN  Advance([c EXCEPT !.v = [v1 EXCEPT ![x] = U8(sum)]])

\* 7XNN
ExecAdd(c, instruction) ==
    Advance([c EXCEPT !.v[XOf(instruction)] = U8(@ + NNOf(instruction))])

\* 8XY0
ExecMove(c, instruction) ==
    Advance([c EXCEPT !.v[XOf(instruction)] = c.v[YOf(instruction)]])

\* 8XY2
ExecAnd(c, instruction) ==
    Advance([c EXCEPT !.v[XOf(instruction)] = BitAnd(@, c.v[YOf(instruction)])])

\* An 8XY4 whose flag is also set when the sum equals the old value.
ExecAddRegGe(c, instruction) ==
    LET x == XOf(instruction)
        y == YOf(instruction)
        carry == c.v[x]
        v1 == [c.v EXCEPT ![x] = U8(c.v[x] + c.v[y])]
        v2 == [v1 EXCEPT ![15] = IF carry >= v1[x] THEN 1 ELSE 0]
    IN  Advance([c EXCEPT !.v = v2])

\* 8XY4: the sum is stored first, the flag is computed from the stored sum.
ExecAddReg(c, instruction) ==
    LET x == XOf(instruction)
        y == YOf(instruction)
        carry == c.v[x]
        v1 == [c.v EXCEPT ![x] = U8(c.v[x] + c.v[y])]
        v2 == [v1 EXCEPT ![15] = IF carry > v1[x] THEN 1 ELSE 0]
    IN  Advance([c EXCEPT !.v = v2])

\* 8XY5: the flag is stored first, the subtraction reads the registers after it.
ExecSubReg(c, instruction) ==
    LET x == XOf(instruction)
        y == YOf(instruction)
        v1 == [c.v EXCEPT ![15] = IF c.v[y] > c.v[x] THEN 1 ELSE 0]
        v2 == [v1 EXCEPT ![x] = U8(v1[x] - v1[y])]
    IN  Advance([c EXCEPT !.v = v2])

\* ANNN
ExecSetI(c, instruction) == Advance([c EXCEPT !.i = NNNOf(instruction)])

\* CXNN
ExecRand(c, instruction, o) ==
    Advance([c EXCEPT !.v[XOf(instruction)] =
                          BitAnd(BitAnd(o.rand, NNOf(instruction)), 255)])

\* DXYN: the loop over the rows h..n-1; d is [c, unset, rows], rows the row
\* indices handed to display_draw_row so far.
RECURSIVE DrawRows(_, _, _, _, _, _)
DrawRows(d, x, y, h, n, o) ==
    IF h >= n \/ d.c.exited THEN d
    ELSE IF ~InRam(U16(d.c.i + h))
    THEN [d EXCEPT !.c.exited = TRUE]
    ELSE LET byte == d.c.ram[U16(d.c.i + h)]
             r == DisplayDrawRow(d.c.p, byte, x, U8(y + h), o)
             m == IF U8(y + h) >= DISPLAY_H /\ o.oob = "ram"
                  THEN StrayXor(d.c.ram, U8(y + h), ShiftedRow(Mirror(byte), x, o), 0)
                  ELSE d.c.ram
         IN  DrawRows([c |-> [d.c EXCEPT !.p = r.p, !.exited = r.crashed, !.ram = m],
                       unset |-> d.unset \/ r.unset,
                       rows |-> Append(d.rows, U8(y + h))],
                      x, y, h + 1, n, o)

\* The loop of DXYN from its first row.
DrawSprite(c, instruction, o) ==
    DrawRows([c |-> c, unset |-> FALSE, rows |-> <<>>],
             c.v[XOf(instruction)], c.v[YOf(instruction)], 0, NOf(instruction), o)

\* A DXYN that clears V[F] before it reads the coordinates.
ExecDrawClearingFlagFirst(c, instruction, o) ==
    LET d == DrawSprite([c EXCEPT !.v[15] = 0], instruction, o)
    IN  IF d.c.exited THEN d.c
        ELSE Advance([d.c EXCEPT !.v[15] = IF d.unset THEN 1 ELSE 0])

\* DXYN
ExecDraw(c, instruction, o) ==
    LET d == DrawSprite(c, instruction, o)
    IN  IF d.c.exited THEN d.c
        ELSE Advance([d.c EXCEPT !.v[15] = IF d.unset THEN 1 ELSE 0])

\* EXA1: the key test.
KeyNotPressed(c, instruction) == BitAnd(c.input, c.v[XOf(instruction)]) = 0

\* EXA1
ExecSkipKey(c, instruction) ==
    Advance(IF KeyNotPressed(c, instruction) THEN Advance(c) ELSE c)

\* FX07
ExecGetDelay(c, instruction) == Advance([c EXCEPT !.v[XOf(instruction)] = c.delay])

\* FX15
ExecSetDelay(c, instruction) == Advance([c EXCEPT !.delay = c.v[XOf(instruction)]])

\* FX18
ExecSetSound(c, instruction) == Advance([c EXCEPT !.sound = c.v[XOf(instruction)]])

\* An FX29 for glyphs sixteen bytes apart.
ExecDigitWide(c, instruction) ==
    Advance([c EXCEPT !.i = U16(BUILTIN_SPRITES_OFFSET
                                + c.v[XOf(instruction)] * NREGS)])

\* FX29
ExecDigit(c, instruction) ==
    Advance([c EXCEPT !.i = U16(BUILTIN_SPRITES_OFFSET
                                + c.v[XOf(instruction)] * GLYPH_STRIDE)])

\* An FX33 that stores the units first.
ExecBcdUnitsFirst(c, instruction) ==
    LET value == c.v[XOf(instruction)]
        c1 == RamWriteByte(c, c.i, value % 10)
        c2 == RamWriteByte(c1, U16(c.i + 1), (value \div 10) % 10)
        c3 == RamWriteByte(c2, U16(c.i + 2), (value \div 100) % 10)
    IN  IF c3.exited THEN c3 ELSE Advance(c3)

\* FX33
ExecBcd(c, instruction) ==
    LET value == c.v[XOf(instruction)]
        c1 == RamWriteByte(c, c.i, (value \div 100) % 10)
        c2 == RamWriteByte(c1, U16(c.i + 1), (value \div 10) % 10)
        c3 == RamWriteByte(c2, U16(c.i + 2), value % 10)
    IN  IF c3.exited THEN c3 ELSE Advance(c3)

\* FX65: the loop over the registers k..x.
RECURSIVE FillRegs(_, _, _)
FillRegs(c, k, x) ==
    IF k > x \/ c.exited THEN c
    ELSE IF ~InRam(U16(c.i + k)) THEN [c EXCEPT !.exited = TRUE]
    ELSE FillRegs([c EXCEPT !.v[k] = c.ram[U16(c.i + k)]], k + 1, x)

\* An FX65 that leaves I behind the last byte read.
ExecFillAdvancingI(c, instruction) ==
    LET c1 == FillRegs(c, 0, XOf(instruction))
    IN  IF c1.exited THEN c1
        ELSE Advance([c1 EXCEPT !.i = U16(c.i + XOf(instruction) + 1)])

\* FX65
ExecFill(c, instruction) ==
    LET c1 == FillRegs(c, 0, XOf(instruction))
    IN  IF c1.exited THEN c1 ELSE Advance(c1)

\* cpu_execute: the chain of branches, first match wins.
Dispatch(c, instruction, o) ==
    LET op == OpOf(instruction)
        nn == NNOf(instruction)
        n == NOf(instruction)
    IN  IF instruction = RETURN_WORD THEN ExecReturn(c)
        ELSE IF op = 1 THEN ExecJump(c, instruction)
        ELSE IF op = 2 THEN ExecCall(c, instruction)
        ELSE IF op = 3 THEN ExecSkipEq(c, instruction)
        ELSE IF op = 4 THEN ExecSkipNe(c, instruction)
        ELSE IF op = 6 THEN ExecSet(c, instruction)
        ELSE IF op = 7 THEN ExecAdd(c, instruction)
        ELSE IF op = 8 /\ n = 0 THEN ExecMove(c, instruction)
        ELSE IF op = 8 /\ n = 2 THEN ExecAnd(c, instruction)
        ELSE IF op = 8 /\ n = 4 THEN ExecAddReg(c, instruction)
        ELSE IF op = 8 /\ n = 5 THEN ExecSubReg(c, instruction)
        ELSE IF op = 10 THEN ExecSetI(c, instruction)
        ELSE IF op = 12 THEN ExecRand(c, instruction, o)
        ELSE IF op = 13 THEN ExecDraw(c, instruction, o)
        ELSE IF op = 14 /\ nn = 161 THEN ExecSkipKey(c, instruction)
        ELSE IF op = 15 /\ nn = 7 THEN ExecGetDelay(c, instruction)
        ELSE IF op = 15 /\ nn = 21 THEN ExecSetDelay(c, instruction)
        ELSE IF op = 15 /\ nn = 24 THEN ExecSetSound(c, instruction)
        ELSE IF op = 15 /\ nn = 41 THEN ExecDigit(c, instruction)
        ELSE IF op = 15 /\ nn = 51 THEN ExecBcd(c, instruction)
        ELSE IF op = 15 /\ nn = 101 THEN ExecFill(c, instruction)
        ELSE Halted(c)

\* A cpu_execute that does not look at HALT.
CpuExecuteIgnoringHalt(c, instruction, o) == Dispatch(c, instruction, o)

\* A cpu_execute that knows 00E0 (clear the display).
CpuExecuteWithClear(c, instruction, o) ==
    IF c.halt THEN c
    ELSE IF instruction = 224 THEN Advance([c EXCEPT !.p = [y \in DOMAIN c.p |-> {}]])
    ELSE Dispatch(c, instruction, o)

\* cpu_execute
CpuExecute(c, instruction, o) ==
    IF c.halt THEN c ELSE Dispatch(c, instruction, o)

\* A tick that decrements without looking at the timer.
CpuTimerTickWrapping(c) ==
    [c EXCEPT !.delay = U8(@ - 1), !.sound = U8(@ - 1)]

\* cpu_timer_tick
CpuTimerTick(c) ==
    [c EXCEPT !.delay = IF @ # 0 THEN U8(@ - 1) ELSE @,
              !.sound = IF @ # 0 THEN U8(@ - 1) ELSE @]

\* cpu_poll_keystate: keys is the set of the logical keys whose scancode is held.
RECURSIVE KeyBits(_)
KeyBits(keys) ==
    IF keys = {} THEN 0
    ELSE LET k == CHOOSE q \in keys : TRUE
         IN  BitOr(2^k, KeyBits(keys \ {k}))

CpuPollKeystate(c, keys) == [c EXCEPT !.input = KeyBits(keys)]

\* ram_get_instruction: the two bytes are in range.
FetchInRam(address) == InRam(address) /\ InRam(U16(address + 1))

RamGetInstruction(m, address) == BitOr(m[address] * 256, m[U16(address + 1)])

(***************************************************************************)
(* Construction: what main does before its loop.                           *)
(***************************************************************************)
\* The three glyphs ram_load_digit_sprites writes.
Glyphs == << <<240, 144, 144, 144, 240>>, <<32, 96, 32, 32, 112>>,
             <<240, 16, 240, 128, 240>> >>

\* STRING_LEN_COUNT(s) is #s, 6, 6: fwrite takes 6 items of 6 bytes from a
\* 6-byte literal, so each glyph is followed by its NUL and by 30 bytes read
\* past the literal (filler stands for what lies there).
SpriteChunk(g, filler) ==
    g \o <<0>> \o [k \in 1..(LITERAL_NELEMS * LITERAL_NELEMS - LITERAL_NELEMS) |-> filler]

SpriteStream(filler) ==
    SpriteChunk(Glyphs[1], filler) \o SpriteChunk(Glyphs[2], filler)
        \o SpriteChunk(Glyphs[3], filler)

\* ram_load_digit_sprites
RamLoadDigitSprites(m, offset, filler) == RamLoadRom(m, offset, SpriteStream(filler))

\* What an over-read past a string literal may find.
Fillers == {0, 255}

\* The memory main builds: zeroed, the ROM file at ROM_OFFSET, the sprites.
BuiltRam(rom, filler) ==
    RamLoadDigitSprites(RamLoadRom([ram |-> ZeroRam, ok |-> TRUE], ROM_OFFSET, rom),
                        BUILTIN_SPRITES_OFFSET, filler)

\* A reset that starts the program at address 0.
CpuResetAtZero(m, bitmap) ==
    [pc |-> 0,
     v |-> [r \in 0..(NREGS - 1) |-> 0],
     i |-> 0,
     halt |-> FALSE,
     stack |-> [k \in 0..(STACK_NELEMS - 1) |-> 0],
     sp |-> 0,
     input |-> 0,
     ram |-> m.ram,
     delay |-> 0,
     sound |-> 0,
     p |-> bitmap,
     exited |-> ~m.ok]

\* cpu_reset, with the RAM and the display main wires in afterwards.
CpuReset(m, bitmap) ==
    [pc |-> ROM_OFFSET,
     v |-> [r \in 0..(NREGS - 1) |-> 0],
     i |-> 0,
     halt |-> FALSE,
     stack |-> [k \in 0..(STACK_NELEMS - 1) |-> 0],
     sp |-> 0,
     input |-> 0,
     ram |-> m.ram,
     delay |-> 0,
     sound |-> 0,
     p |-> bitmap,
     exited |-> ~m.ok]

\* 6100 2204 6006 00EE: load, call, set, return.
CallReturnRom == <<97, 0, 34, 4, 96, 6, 0, 238>>

\* 2200: a call of itself.
SelfCallRom == <<34, 0>>

\* 2204 0000 2208 00EE 6005 00EE: a call within a call, then an unknown word.
NestedCallRom == <<34, 4, 0, 0, 34, 8, 0, 238, 96, 5, 0, 238>>

\* AFFE 607B F033: the digits of 123 at the last two bytes and beyond.
BcdAtEndRom == <<175, 254, 96, 123, 240, 51>>

\* AFFD 607B F033 AFFF F165: the digits 1, 2, 3 at the last three bytes, then
\* two registers from the last byte and beyond.
FillAtEndRom == <<175, 253, 96, 123, 240, 51, 175, 255, 241, 101>>

\* AFFD 607B F033 AFFF 6000 D012: the digits, then a sprite of two rows from
\* the last byte and beyond.
DrawAtEndRom == <<175, 253, 96, 123, 240, 51, 175, 255, 96, 0, 208, 18>>

\* 1FFF: a jump to the last byte, where an instruction does not fit.
JumpToEndRom == <<31, 255>>

Roms ==
    {CallReturnRom, SelfCallRom, NestedCallRom,
     BcdAtEndRom, FillAtEndRom, DrawAtEndRom, JumpToEndRom}

Starts(c) ==
    /\ pc = c.pc
    /\ v = c.v
    /\ i = c.i
    /\ sp = c.sp
    /\ stack = c.stack
    /\ halt = c.halt
    /\ input = c.input
    /\ delay = c.delay
    /\ sound = c.sound
    /\ ram = c.ram
    /\ p = c.p
    /\ exited = c.exited

\* The record of an operation: its name, its arguments and what it returned.
Called(op, instruction, keys, args, ret) ==
    [op |-> op, instruction |-> instruction, keys |-> keys, args |-> args, ret |-> ret]

NoCall == Called("init", 0, {}, <<>>, FALSE)

\* The delay timer was last loaded with value, ticks ticks ago.
Timed(value, ticks) == [value |-> value, ticks |-> ticks]

NoHistory ==
    /\ cycles = 0
    /\ running = TRUE
    /\ steps = 0
    /\ last = NoCall
    /\ calls = <<>>
    /\ timed = Timed(0, 0)

\* The machine main has built from the ROM file rom.
Constructed(rom, filler) ==
    /\ Starts(CpuReset(BuiltRam(rom, filler), ClearDisplay))
    /\ NoHistory

(***************************************************************************)
(* History of the calls not yet returned from.                             *)
(***************************************************************************)
CallsAfter(c, instruction, c2) ==
    IF c.halt \/ c2.halt \/ c2.exited THEN calls
    ELSE IF OpOf(instruction) = 2 THEN Append(calls, <<c.pc, c.sp>>)
    ELSE IF instruction = RETURN_WORD /\ calls # <<>>
    THEN SubSeq(calls, 1, Len(calls) - 1)
    ELSE calls

(***************************************************************************)
(* History of the delay timer: FX15 loads it, a tick counts.               *)
(***************************************************************************)
TimedAfter(c, instruction, c2) ==
    IF ~c.halt /\ ~c2.exited /\ OpOf(instruction) = 15 /\ NNOf(instruction) = 21
    THEN Timed(c.v[XOf(instruction)], 0)
    ELSE timed

Ticked(t) == [t EXCEPT !.ticks = @ + 1]

(***************************************************************************)
(* The choices an instruction depends on.                                  *)
(***************************************************************************)
OraclesFor(instruction) ==
    IF OpOf(instruction) = 12
    THEN {[NoOracle EXCEPT !.rand = r] : r \in Rands}
    ELSE IF OpOf(instruction) = 13
    THEN {o \in Oracles : o.rand = 0}
    ELSE {NoOracle}

\* The choices that make a difference on the machine c: the shift is
\* undefined only for V[X] >= 64, the row index is out of range only for
\* V[Y] + N > 32.
OraclesIn(c, instruction) ==
    IF OpOf(instruction) # 13 THEN OraclesFor(instruction)
    ELSE {o \in OraclesFor(instruction) :
            /\ c.v[XOf(instruction)] < WORD_BITS => o.shift = NoOracle.shift
            /\ c.v[YOf(instruction)] + NOf(instruction) <= DISPLAY_H
                  => (o.oob = NoOracle.oob /\ o.ret = NoOracle.ret)}

(***************************************************************************)
(* The operations as a harness calls them (as test does), in any order.    *)
(***************************************************************************)
Instructions ==
    { 238,      \* 00EE
      4612,     \* 1204
      8708,     \* 2204
      12288,    \* 3000
      16384,    \* 4000
      24837,    \* 6105
      24831,    \* 60FF
      24864,    \* 6120
      28673,    \* 7001
      32784,    \* 8010
      32786,    \* 8012
      32788,    \* 8014
      32789,    \* 8015
      36629,    \* 8F15
      41472,    \* A200
      45055,    \* AFFF
      49407,    \* C0FF
      53265,    \* D011
      57505,    \* E0A1
      61447,    \* F007
      61717,    \* F115
      61720,    \* F118
      61481,    \* F029
      61747,    \* F133
      61797,    \* F165
      0,        \* 0000
      224,      \* 00E0
      20496,    \* 5010
      32785,    \* 8011
      36880,    \* 9010
      45056,    \* B000
      57502,    \* E09E
      61525 }   \* F055

KeySets == {{}, {0}, {1, 15}}

\* History: the row indices a cpu_execute hands to display_draw_row.
RowsPassed(c, instruction, o) ==
    IF ~c.halt /\ OpOf(instruction) = 13 THEN DrawSprite(c, instruction, o).rows
    ELSE <<>>

\* cpu_execute(&cpu, instruction), while fewer than budget calls were made
ExecuteWithin(instruction, budget) ==
    /\ ~exited
    /\ steps < budget
    /\ \E o \in OraclesIn(Cpu, instruction) :
          LET c2 == CpuExecute(Cpu, instruction, o)
          IN  /\ Becomes(c2)
              /\ calls' = CallsAfter(Cpu, instruction, c2)
              /\ last' = Called("execute", instruction, {},
                                RowsPassed(Cpu, instruction, o), FALSE)
              /\ timed' = TimedAfter(Cpu, instruction, c2)
    /\ steps' = steps + 1
    /\ UNCHANGED <<cycles, running>>

Execute(instruction) == ExecuteWithin(instruction, MaxSteps)

\* cpu_timer_tick(&cpu)
TimerTick ==
    /\ ~exited
    /\ steps < MaxSteps
    /\ Becomes(CpuTimerTick(Cpu))
    /\ steps' = steps + 1
    /\ last' = Called("tick", 0, {}, <<>>, FALSE)
    /\ timed' = Ticked(timed)
    /\ UNCHANGED <<cycles, running, calls>>

\* cpu_poll_keystate(&cpu, keys)
PollKeystate(keys) ==
    /\ ~exited
    /\ steps < MaxSteps
    /\ Becomes(CpuPollKeystate(Cpu, keys))
    /\ steps' = steps + 1
    /\ last' = Called("poll", 0, keys, <<>>, FALSE)
    /\ UNCHANGED <<cycles, running, calls, timed>>

Init == \E filler \in Fillers : Constructed(CallReturnRom, filler)

Next ==
    \/ \E instruction \in Instructions : Execute(instruction)
    \/ TimerTick
    \/ \E keys \in KeySets : PollKeystate(keys)

Spec == Init /\ [][Next]_vars

(***************************************************************************)
(* The pacing loop of main, one action per iteration.                      *)
(***************************************************************************)
\* An iteration that looks at HALT after the cycle count and the tick.
LoopBodyHaltChecksLast(c, keys, o) ==
    LET c1 == CpuPollKeystate(c, keys)
    IN  IF ~FetchInRam(c1.pc)
        THEN [c |-> [c1 EXCEPT !.exited = TRUE], cycles |-> cycles, running |-> TRUE,
              ticked |-> FALSE]
        ELSE LET c2 == CpuExecute(c1, RamGetInstruction(c1.ram, c1.pc), o)
             IN  IF c2.exited
                 THEN [c |-> c2, cycles |-> cycles, running |-> TRUE, ticked |-> FALSE]
                 ELSE IF (cycles + 1) % TICK_DIVIDER = 0
                 THEN [c |-> CpuTimerTick(c2), cycles |-> cycles + 1,
                       running |-> ~c2.halt, ticked |-> TRUE]
                 ELSE [c |-> c2, cycles |-> cycles + 1, running |-> ~c2.halt,
                       ticked |-> FALSE]

\* One iteration with no quit event: poll the keys, fetch and execute; leave
\* the loop on HALT; else count the cycle and tick on every eighth.
LoopBody(c, keys, o) ==
    LET c1 == CpuPollKeystate(c, keys)
    IN  IF ~FetchInRam(c1.pc)
        THEN [c |-> [c1 EXCEPT !.exited = TRUE], cycles |-> cycles, running |-> TRUE,
              ticked |-> FALSE]
        ELSE LET c2 == CpuExecute(c1, RamGetInstruction(c1.ram, c1.pc), o)
             IN  IF c2.exited
                 THEN [c |-> c2, cycles |-> cycles, running |-> TRUE, ticked |-> FALSE]
                 ELSE IF c2.halt
                 THEN [c |-> c2, cycles |-> cycles, running |-> FALSE, ticked |-> FALSE]
                 ELSE IF (cycles + 1) % TICK_DIVIDER = 0
                 THEN [c |-> CpuTimerTick(c2), cycles |-> cycles + 1, running |-> TRUE,
                       ticked |-> TRUE]
                 ELSE [c |-> c2, cycles |-> cycles + 1, running |-> TRUE,
                       ticked |-> FALSE]

LoopIteration(keys) ==
    /\ running
    /\ ~exited
    /\ LET instruction == IF FetchInRam(pc) THEN RamGetInstruction(ram, pc) ELSE 0
       IN  /\ \E o \in OraclesIn(Cpu, instruction) :
                 LET r == LoopBody(Cpu, keys, o)
                 IN  /\ Becomes(r.c)
                     /\ cycles' = r.cycles
                     /\ running' = r.running
                     /\ calls' = CallsAfter(Cpu, instruction, r.c)
                     /\ timed' = IF r.ticked
                                 THEN Ticked(TimedAfter(Cpu, instruction, r.c))
                                 ELSE TimedAfter(Cpu, instruction, r.c)
           /\ last' = Called("loop", instruction, keys, <<>>, FALSE)
    /\ UNCHANGED steps

\* SDL_QUIT: break.
LoopQuit ==
    /\ running
    /\ ~exited
    /\ running' = FALSE
    /\ last' = Called("quit", 0, {}, <<>>, FALSE)
    /\ UNCHANGED <<machine, cycles, steps, calls, timed>>

RunKeySets == {{}, {0}}

RunInit == \E rom \in Roms : \E filler \in Fillers : Constructed(rom, filler)

RunNext ==
    \/ \E keys \in RunKeySets : LoopIteration(keys)
    \/ LoopQuit

SpecRun == RunInit /\ [][RunNext]_vars

(***************************************************************************)
(* One call of cpu_execute on a machine whose registers, latch and stack   *)
(* are drawn from the states programs bring it to.                         *)
(***************************************************************************)
AluValues == {0, 1, 4, 6, 127, 128, 254, 255}

\* Register files that give every pair of distinct registers every pair of
\* values: the registers with bit j set hold s, the others t.
RegFiles ==
    {[r \in 0..(NREGS - 1) |-> IF (r \div (2^j)) % 2 = 1 THEN s ELSE t] :
        j \in 0..3, s \in AluValues, t \in AluValues}

\* 8XY4 and 8XY5 for every X and Y.
AluWords == {32768 + xy * 16 + n : xy \in 0..255, n \in {4, 5}}

AluInit ==
    \E filler \in Fillers : \E regs \in RegFiles :
        /\ Starts([CpuReset(BuiltRam(CallReturnRom, filler), ClearDisplay)
                      EXCEPT !.v = regs])
        /\ NoHistory

AluNext == steps < 1 /\ \E instruction \in AluWords : ExecuteWithin(instruction, 1)

SpecAlu == AluInit /\ [][AluNext]_vars

\* The machine after the STACK_NELEMS calls of SelfCallRom: the stack is full.
FullStack(filler) ==
    [CpuReset(BuiltRam(SelfCallRom, filler), ClearDisplay)
        EXCEPT !.sp = STACK_NELEMS,
               !.stack = [k \in 0..(STACK_NELEMS - 1) |-> ROM_OFFSET]]

AllWords == 0..(Pow16 - 1)

DecodeInit ==
    \E filler \in Fillers :
        \/ Constructed(CallReturnRom, filler)
        \/ /\ Starts(FullStack(filler))
           /\ cycles = STACK_NELEMS
           /\ running = TRUE
           /\ steps = 0
           /\ last = NoCall
           /\ calls = [k \in 1..STACK_NELEMS |-> <<ROM_OFFSET, k - 1>>]
           /\ timed = Timed(0, STACK_NELEMS \div TICK_DIVIDER)

DecodeNext == steps < 1 /\ \E instruction \in AllWords : ExecuteWithin(instruction, 1)

SpecDecode == DecodeInit /\ [][DecodeNext]_vars

(***************************************************************************)
(* display_draw_row called directly, as test does.                         *)
(***************************************************************************)
RowBytes == {0, 1, 128, 192, 255}

DrawXs == {0, 1, 7, 56, 60, 63, 64, 200}

DrawYs == {0, 31}

DrawOracles(x) ==
    IF x < WORD_BITS THEN {NoOracle}
    ELSE {[NoOracle EXCEPT !.shift = sh] : sh \in ShiftOutcomes}

\* Row contents earlier draws leave behind: none, 0x01 at x = 0.
PriorRows == {{}, {7}}

\* The bitmap after display_clear and the draws that left prior in row 0.
DrawInit ==
    \E prior \in PriorRows :
        /\ Starts([CpuReset(BuiltRam(CallReturnRom, 0), ClearDisplay)
                      EXCEPT !.p = [ClearDisplay EXCEPT ![0] = prior]])
        /\ NoHistory

\* unset = display_draw_row(&display, row, x, y); the history keeps the
\* arguments and the content of the row before the call.
DrawRow(row, x, y) ==
    /\ ~exited
    /\ steps < MaxDraws
    /\ \E o \in DrawOracles(x) :
          LET r == DisplayDrawRow(p, row, x, y, o)
          IN  /\ p' = r.p
              /\ exited' = r.crashed
              /\ last' = Called("draw_row", 0, {}, <<row, x, y, p[y]>>, r.unset)
    /\ steps' = steps + 1
    /\ UNCHANGED <<pc, v, i, sp, stack, halt, input, delay, sound, ram,
                   cycles, running, calls, timed>>

DrawNext == \E row \in RowBytes : \E x \in DrawXs : \E y \in DrawYs : DrawRow(row, x, y)

SpecDraw == DrawInit /\ [][DrawNext]_vars

(***************************************************************************)
(* ram_load_rom called directly on a zeroed memory, as test and main do.   *)
(***************************************************************************)
\* A program image of n bytes.
Image(n) == [k \in 1..n |-> k % Pow8]

\* Streams: empty, the programs, and images that reach the end of the memory
\* from ROM_OFFSET (one byte short of it, exactly to it).
LoadStreams ==
    {<<>>, SelfCallRom, CallReturnRom,
     Image(RAM_SIZE - ROM_OFFSET - 1), Image(RAM_SIZE - ROM_OFFSET)}

LoadOffsets == {0, ROM_OFFSET, RAM_SIZE - 2}

\* uint8_t _ram[RAM_SIZE] = { 0 }, cpu_reset, display_clear
LoadInit ==
    /\ Starts(CpuReset([ram |-> ZeroRam, ok |-> TRUE], ClearDisplay))
    /\ NoHistory

\* ram_load_rom(ram, offset, rom)
LoadRom(offset, rom) ==
    /\ ~exited
    /\ steps < MaxLoads
    /\ LET m == RamLoadRom([ram |-> ram, ok |-> TRUE], offset, rom)
       IN  /\ ram' = m.ram
           /\ exited' = ~m.ok
    /\ steps' = steps + 1
    /\ last' = Called("load", 0, {}, <<offset, rom>>, FALSE)
    /\ UNCHANGED <<pc, v, i, sp, stack, halt, input, delay, sound, p,
                   cycles, running, calls, timed>>

LoadNext == \E offset \in LoadOffsets : \E rom \in LoadStreams : LoadRom(offset, rom)

SpecLoad == LoadInit /\ [][LoadNext]_vars

(***************************************************************************)
(* One FX33 or FX65 on a machine whose registers hold every byte value and *)
(* whose I points into the memory, also at its last bytes.                 *)
(***************************************************************************)
\* Register files in which register r holds value + 17 r: the registers
\* differ, and each takes every value; and the registers after reset.
SpreadRegs ==
    {[r \in 0..(NREGS - 1) |-> U8(value + 17 * r)] : value \in 0..UINT8_MAX}
        \cup {[r \in 0..(NREGS - 1) |-> 0]}

MemIs == {0, 768, RAM_SIZE - 3, RAM_SIZE - 2, RAM_SIZE - 1}

\* for (i = 0; i < 255; i++) ram_write_byte(ram, i, i + 10)
FilledRam(m) == [a \in 0..(RAM_SIZE - 1) |-> IF a < UINT8_MAX THEN U8(a + 10) ELSE m[a]]

MemRams ==
    {BuiltRam(CallReturnRom, filler).ram : filler \in Fillers}
        \cup {FilledRam(BuiltRam(CallReturnRom, 0).ram)}

\* FX33 and FX65 for every X.
MemWords == {61440 + x * 256 + nn : x \in 0..15, nn \in {51, 101}}

MemInit ==
    \E regs \in SpreadRegs : \E index \in MemIs : \E m \in MemRams :
        /\ Starts([CpuReset([ram |-> m, ok |-> TRUE], ClearDisplay)
                      EXCEPT !.v = regs, !.i = index])
        /\ NoHistory

MemNext == steps < 1 /\ \E instruction \in MemWords : ExecuteWithin(instruction, 1)

SpecMem == MemInit /\ [][MemNext]_vars

(***************************************************************************)
(* One 6XNN or 7XNN, for every X and NN, on a machine inside a call.       *)
(***************************************************************************)
ImmValues == {0, 1, 128, 255}

ImmRegs == {[r \in 0..(NREGS - 1) |-> U8(value + 17 * r)] : value \in ImmValues}

\* 6XNN and 7XNN for every X and NN.
ImmWords == {op * 4096 + xnn : op \in {6, 7}, xnn \in 0..4095}

\* The machine after 6100 2204 of CallReturnRom (two iterations of the
\* loop), with registers, I, timers, latch and a display row that programs set.
ImmInit ==
    \E filler \in Fillers : \E regs \in ImmRegs :
        /\ Starts([CpuReset(BuiltRam(CallReturnRom, filler), ClearDisplay)
                      EXCEPT !.pc = ROM_OFFSET + 4,
                             !.sp = 1,
                             !.stack = [@ EXCEPT ![0] = ROM_OFFSET + 2],
                             !.v = regs,
                             !.i = 768,
                             !.delay = 9,
                             !.sound = 4,
                             !.input = 1,
                             !.p = [@ EXCEPT ![0] = {7}]])
        /\ cycles = 2
        /\ running = TRUE
        /\ steps = 0
        /\ last = NoCall
        /\ calls = << <<ROM_OFFSET + 2, 0>> >>
        /\ timed = Timed(9, 0)

ImmNext == steps < 1 /\ \E instruction \in ImmWords : ExecuteWithin(instruction, 1)

SpecImm == ImmInit /\ [][ImmNext]_vars

(***************************************************************************)
(* The harness on a machine whose timers a program has loaded.             *)
(***************************************************************************)
TimerValues == {0, 1, 255}

\* The machine after 61NN F115 F118 from reset: both timers hold NN.
TimerInit ==
    \E value \in TimerValues :
        /\ Starts([CpuReset(BuiltRam(CallReturnRom, 0), ClearDisplay)
                      EXCEPT !.pc = ROM_OFFSET + 6,
                             !.v = [@ EXCEPT ![1] = value],
                             !.delay = value,
                             !.sound = value])
        /\ cycles = 0
        /\ running = TRUE
        /\ steps = 0
        /\ last = NoCall
        /\ calls = <<>>
        /\ timed = Timed(value, 0)

SpecTimer == TimerInit /\ [][Next]_vars

(***************************************************************************)
(* The harness with cpu_reset among its calls, as test resets the machine  *)
(* between its cases.                                                      *)
(***************************************************************************)
\* cpu_reset(&cpu); cpu.ram = ram: the memory and the display stay as they
\* are. The history keeps HALT and PC as they were before the reset.
Reset ==
    /\ ~exited
    /\ steps < MaxSteps
    /\ Becomes(CpuReset([ram |-> ram, ok |-> TRUE], p))
    /\ steps' = steps + 1
    /\ last' = Called("reset", 0, {}, <<halt, pc>>, FALSE)
    /\ calls' = <<>>
    /\ timed' = Timed(0, 0)
    /\ UNCHANGED <<cycles, running>>

ResetNext == Next \/ Reset

SpecReset == Init /\ [][ResetNext]_vars

(***************************************************************************)
(* One DXYN, for every X and Y, on an empty display and on a display that  *)
(* shows the glyph of 0.                                                   *)
(***************************************************************************)
SpriteCoords == {0, 3, 30}

\* Register files that give every pair of distinct registers every pair of
\* coordinates.
SpriteRegs ==
    {[r \in 0..(NREGS - 1) |-> IF (r \div (2^j)) % 2 = 1 THEN s ELSE t] :
        j \in 0..3, s \in SpriteCoords, t \in SpriteCoords}

SpriteHeights == {0, 1, 5}

\* DXYN for every X and Y.
SpriteWords == {53248 + xy * 16 + n : xy \in 0..255, n \in SpriteHeights}

\* The display after the glyph at BUILTIN_SPRITES_OFFSET (F0 90 90 90 F0)
\* was drawn at 0, 0.
GlyphDrawn ==
    [y \in 0..(DISPLAY_H - 1) |->
        IF y \in {0, 4} THEN {0, 1, 2, 3} ELSE IF y \in 1..3 THEN {0, 3} ELSE {}]

SpriteInit ==
    \E regs \in SpriteRegs : \E bitmap \in {ClearDisplay, GlyphDrawn} :
        /\ Starts([CpuReset(BuiltRam(CallReturnRom, 0), bitmap)
                      EXCEPT !.v = regs, !.i = BUILTIN_SPRITES_OFFSET])
        /\ NoHistory

SpriteNext == steps < 1 /\ \E instruction \in SpriteWords : ExecuteWithin(instruction, 1)

SpecSprite == SpriteInit /\ [][SpriteNext]_vars

(***************************************************************************)
(* Properties.                                                             *)
(***************************************************************************)
\* The step is a call of cpu_execute (directly or from the loop) on a
\* machine that is not halted.
Executes(op) == last'.op = op /\ ~halt /\ ~exited

\* rom is in memory at ROM_OFFSET.
RomLoaded(rom) == \A k \in 1..Len(rom) : ram[ROM_OFFSET + k - 1] = rom[k]

\* C1: once HALT is set, a call of cpu_execute with any instruction word
\* changes nothing of the machine (PC, registers, I, sp, stack, timers,
\* latch, memory, display), and HALT stays set.
C1_HaltedExecuteIsNoOp ==
    [][(halt /\ last'.op = "execute") => machine' = machine]_vars

\* C1 witness: 6105 was executed on a halted machine as the third call, and
\* V1 is still 0.
C1_Witness ==
    halt /\ last.op = "execute" /\ last.instruction = 24837 /\ steps = 3 /\ v[1] = 0

\* C2: sp stays within 0..255 and equals the number of calls not yet
\* returned from: no call pushes beyond the 255 entries (sp would wrap to 0)
\* and no return takes sp below zero (sp would wrap to 255).
C2_StackPointerInRange == sp \in 0..STACK_NELEMS /\ sp = Len(calls)

\* C2 witness: the stack is full.
C2_Witness == sp = STACK_NELEMS /\ Len(calls) = STACK_NELEMS /\ ~halt

\* C3: a 00EE executed while a call made at address A (an instruction in
\* memory) with sp = s < 255 is the innermost one not yet returned from does
\* not halt and leaves PC = A + 2 and sp = s; and four loop iterations on
\* 6100 2204 6006 00EE leave PC = 0x204, sp = 0, V0 = 6.
C3_CallReturnRoundTrip ==
    [][/\ (Executes("loop") /\ last'.instruction = RETURN_WORD /\ calls # <<>>)
            => LET top == calls[Len(calls)]
               IN  (top[2] < STACK_NELEMS /\ top[1] + 1 < RAM_SIZE)
                      => /\ ~halt'
                         /\ pc' = top[1] + 2
                         /\ sp' = top[2]
                         /\ calls' = SubSeq(calls, 1, Len(calls) - 1)
       /\ (RomLoaded(CallReturnRom)' /\ cycles' = 4)
            => (pc' = 516 /\ sp' = 0 /\ v'[0] = 6)]_vars

\* C3 witness: the fourth iteration on 6100 2204 6006 00EE was the return.
C3_Witness ==
    /\ RomLoaded(CallReturnRom)
    /\ cycles = 4
    /\ last.op = "loop"
    /\ last.instruction = RETURN_WORD
    /\ pc = 516

\* C4: a 2NNN at sp < 255 succeeds (sp + 1, the address saved at the old
\* sp); a 2NNN at sp = 255 sets HALT and leaves PC, sp and the stack as they
\* were; on the program 2200 from reset sp counts the iterations, and HALT is
\* set only after 255 calls have succeeded, by the 256th.
C4_OverflowOn256thCall ==
    [][/\ (Executes("loop") /\ OpOf(last'.instruction) = 2 /\ sp < STACK_NELEMS)
            => (~halt' /\ sp' = sp + 1 /\ stack' = [stack EXCEPT ![sp] = pc])
       /\ (Executes("loop") /\ OpOf(last'.instruction) = 2 /\ sp = STACK_NELEMS)
            => (halt' /\ pc' = pc /\ sp' = sp /\ stack' = stack)
       /\ RomLoaded(SelfCallRom)'
            => (sp' = cycles' /\ (halt' => cycles' = 255))]_vars

\* C4 witness: the 256th call of 2200 has halted the machine.
C4_Witness ==
    /\ RomLoaded(SelfCallRom)
    /\ halt
    /\ sp = STACK_NELEMS
    /\ cycles = 255
    /\ OpOf(last.instruction) = 2

\* C5: 00EE at sp = 0 sets HALT and changes nothing else.
C5_UnderflowHaltsOnly ==
    [][(Executes("execute") /\ last'.instruction = RETURN_WORD /\ sp = 0)
          => /\ halt'
             /\ UNCHANGED <<pc, v, i, sp, stack, input, delay, sound, ram, p, exited>>]_vars

\* C5 witness: the first call was 00EE, and the machine is halted at PC 0x200.
C5_Witness ==
    /\ halt
    /\ steps = 1
    /\ last.op = "execute"
    /\ last.instruction = RETURN_WORD
    /\ pc = ROM_OFFSET

\* The patterns C6 lists.
C6_Listed(w) ==
    \/ w = 238
    \/ OpOf(w) \in {1, 2, 3, 4, 6, 7, 10, 12, 13}
    \/ OpOf(w) = 8 /\ NOf(w) \in {0, 2, 4, 5}
    \/ OpOf(w) = 14 /\ NNOf(w) = 161
    \/ OpOf(w) = 15 /\ NNOf(w) \in {7, 21, 24, 41, 51, 101}

\* C6: a word that matches none of the listed patterns sets HALT and leaves
\* everything else as it was; and HALT is set only by such a word, by a 2NNN
\* at sp = 255 or by a 00EE at sp = 0.
C6_UnknownWordHalts ==
    [][Executes("execute")
          => LET w == last'.instruction
             IN  /\ ~C6_Listed(w)
                    => /\ halt'
                       /\ UNCHANGED <<pc, v, i, sp, stack, input, delay, sound,
                                      ram, p, exited>>
                 /\ halt' => \/ ~C6_Listed(w)
                             \/ OpOf(w) = 2 /\ sp = STACK_NELEMS
                             \/ w = 238 /\ sp = 0]_vars

\* C6 witness: 00E0 has halted the machine.
C6_Witness == halt /\ last.op = "execute" /\ last.instruction = 224 /\ sp = 0

\* C7 as claimed: after 8XY5, V[F] is 1 if V[Y] > V[X] held before and 0
\* otherwise, for every X and Y.
C7_BorrowFlag ==
    [][(Executes("execute") /\ OpOf(last'.instruction) = 8 /\ NOf(last'.instruction) = 5)
          => v'[15] = IF v[YOf(last'.instruction)] > v[XOf(last'.instruction)]
                      THEN 1 ELSE 0]_vars

\* C8: after 8XY4, V[F] is 1 if the sum of the old V[X] and V[Y] exceeds 255
\* and 0 otherwise, for every X and Y; for X # F, V[X] is the sum mod 256.
C8_CarryFlag ==
    [][(Executes("execute") /\ OpOf(last'.instruction) = 8 /\ NOf(last'.instruction) = 4)
          => LET x == XOf(last'.instruction)
                 y == YOf(last'.instruction)
             IN  /\ v'[15] = IF v[x] + v[y] > 255 THEN 1 ELSE 0
                 /\ x # 15 => v'[x] = (v[x] + v[y]) % 256]_vars

\* C8 witness: 8FF4 on V[F] = 128 has left the carry in V[F].
C8_Witness ==
    /\ last.op = "execute"
    /\ last.instruction = 36852
    /\ v[15] = 1
    /\ v[0] = 128

\* Key k is held in the latch.
KeyHeld(latch, k) == (latch \div (2^k)) % 2 = 1

\* C9 as claimed: EXA1 advances PC by 4 if bit V[X] of the latch is 0 and by
\* 2 otherwise, and leaves the latch as it was.
C9_SkipIfKeyNotHeld ==
    [][(Executes("execute") /\ OpOf(last'.instruction) = 14
            /\ NNOf(last'.instruction) = 161 /\ v[XOf(last'.instruction)] < 16)
          => /\ pc' = pc + (IF KeyHeld(input, v[XOf(last'.instruction)]) THEN 2 ELSE 4)
             /\ input' = input]_vars

\* C10 as claimed: display_draw_row returns true exactly if a pixel of the
\* row that was set is no longer set.
C10_CollisionIfPixelCleared ==
    [][last'.op = "draw_row"
          => (last'.ret <=> (p[last'.args[3]] \ p'[last'.args[3]]) # {})]_vars

\* The step is a second display_draw_row with the arguments of the first.
C11_Redraw ==
    /\ last.op = "draw_row"
    /\ last'.op = "draw_row"
    /\ \A k \in 1..3 : last'.args[k] = last.args[k]
    /\ last.args[2] < DISPLAY_W

\* Some set bit of the row byte lands on a column of the display: bit 7 of
\* the byte is the pixel at column x.
C11_Visible(row, x) == \E k \in 0..7 : (row \div (2^k)) % 2 = 1 /\ x + 7 - k < DISPLAY_W

\* C11 as claimed: on an empty row, the first draw returns false, the second
\* draw of the same byte at the same x and y returns true, for every byte.
C11_SecondDrawCollides ==
    [][(C11_Redraw /\ last.args[4] = {}) => (~last.ret /\ last'.ret)]_vars

\* C11: for x in 0..63, drawing the same byte at the same x and y twice
\* restores the row, whatever it held; on an empty row the first draw returns
\* false, the second returns true exactly if a set bit of the byte lands on
\* the display (not for the byte 0, nor for bits shifted past column 63),
\* and the row is empty afterwards.
C11_DrawTwiceRestores ==
    [][C11_Redraw
          => /\ p'[last.args[3]] = last.args[4]
             /\ last.args[4] = {}
                   => /\ ~last.ret
                      /\ last'.ret <=> C11_Visible(last.args[1], last.args[2])
                      /\ p'[last.args[3]] = {}]_vars

\* C11 witness: 0xFF was drawn twice at x = 60 on a row that held column 7,
\* and the row holds column 7 again.
C11_Witness ==
    /\ steps = 2
    /\ last.op = "draw_row"
    /\ last.args = <<255, 60, 0, {7, 60, 61, 62, 63}>>
    /\ p[0] = {7}

\* C12 as claimed: every row index DXYN hands to display_draw_row lies in
\* 0..31, the rows of the bitmap.
C12_RowIndexInBitmap ==
    [][(Executes("execute") /\ OpOf(last'.instruction) = 13)
          => \A k \in 1..Len(last'.args) : last'.args[k] \in 0..(DISPLAY_H - 1)]_vars

\* C13 as claimed: a load of n bytes at offset with offset + n <= 4096 does
\* not end the process, leaves the stream in memory at offset and changes no
\* other address.
C13_LoadIsVerbatim ==
    [][last'.op = "load"
          => LET offset == last'.args[1]
                 rom == last'.args[2]
             IN  offset + Len(rom) <= RAM_SIZE
                    => /\ ~exited'
                       /\ \A k \in 1..Len(rom) : ram'[offset + k - 1] = rom[k]
                       /\ \A a \in 0..(RAM_SIZE - 1) :
                             (a < offset \/ a >= offset + Len(rom)) => ram'[a] = ram[a]]_vars

\* The reference glyphs of the digits 0 to F, five bytes each.
C14_ReferenceGlyphs ==
    << <<240, 144, 144, 144, 240>>, <<32, 96, 32, 32, 112>>,
       <<240, 16, 240, 128, 240>>, <<240, 16, 240, 16, 240>>,
       <<144, 144, 240, 16, 16>>, <<240, 128, 240, 16, 240>>,
       <<240, 128, 240, 144, 240>>, <<240, 16, 32, 64, 64>>,
       <<240, 144, 240, 144, 240>>, <<240, 144, 240, 16, 240>>,
       <<240, 144, 240, 144, 144>>, <<224, 144, 224, 144, 224>>,
       <<240, 128, 128, 128, 240>>, <<224, 144, 144, 144, 224>>,
       <<240, 128, 240, 128, 240>>, <<240, 128, 240, 128, 128>> >>

\* The glyph of every digit d is in memory at 0x100 + d * stride.
C14_TableAt(stride) ==
    \A d \in 0..15 : \A k \in 1..5 :
        ram[BUILTIN_SPRITES_OFFSET + d * stride + k - 1] = C14_ReferenceGlyphs[d + 1][k]

\* C14 as claimed: when the loop of main starts, the table at 0x100 holds the
\* glyphs of all 16 digits, five bytes each (packed, or at the six-byte
\* stride FX29 uses).
C14_SpriteTable ==
    (last = NoCall /\ ~exited) => (C14_TableAt(5) \/ C14_TableAt(GLYPH_STRIDE))

\* C15: FX33 with I + 2 inside the memory stores the hundreds, tens and
\* units of V[X] at I, I + 1 and I + 2, each a digit 0..9 that together give
\* V[X] back, for every value 0..255 and every X; I and the registers are
\* unchanged; 123 gives 1, 2, 3.
C15_BcdDigits ==
    [][(Executes("execute") /\ OpOf(last'.instruction) = 15
            /\ NNOf(last'.instruction) = 51 /\ i + 2 < RAM_SIZE)
          => LET value == v[XOf(last'.instruction)]
             IN  /\ ~exited'
                 /\ ram'[i] = value \div 100
                 /\ ram'[i + 1] = (value \div 10) % 10
                 /\ ram'[i + 2] = value % 10
                 /\ \A k \in 0..2 : ram'[i + k] \in 0..9
                 /\ 100 * ram'[i] + 10 * ram'[i + 1] + ram'[i + 2] = value
                 /\ value = 123 => <<ram'[i], ram'[i + 1], ram'[i + 2]>> = <<1, 2, 3>>
                 /\ i' = i
                 /\ v' = v]_vars

\* C15 witness: F033 with V0 = 123 and I = 0x300 has stored 1, 2, 3.
C15_Witness ==
    /\ last.op = "execute"
    /\ last.instruction = 61491
    /\ v[0] = 123
    /\ i = 768
    /\ <<ram[768], ram[769], ram[770]>> = <<1, 2, 3>>

\* C16: FX65 with I + X inside the memory sets V[k] to memory[I + k] for
\* every k in 0..X and leaves the registers above X, I and the memory
\* unchanged; with memory[a] = a + 10, F165 from reset gives V0 = 10,
\* V1 = 11 and V2 = 0.
C16_FillRegisters ==
    [][(Executes("execute") /\ OpOf(last'.instruction) = 15
            /\ NNOf(last'.instruction) = 101
            /\ i + XOf(last'.instruction) < RAM_SIZE)
          => LET x == XOf(last'.instruction)
             IN  /\ ~exited'
                 /\ \A k \in 0..(NREGS - 1) :
                       v'[k] = IF k <= x THEN ram[i + k] ELSE v[k]
                 /\ i' = i
                 /\ ram' = ram
                 /\ (last'.instruction = 61797 /\ i = 0 /\ v[2] = 0
                         /\ ram[0] = 10 /\ ram[1] = 11)
                       => (v'[0] = 10 /\ v'[1] = 11 /\ v'[2] = 0)]_vars

\* C16 witness: F165 on the memory filled with a + 10, from reset.
C16_Witness ==
    /\ last.op = "execute"
    /\ last.instruction = 61797
    /\ i = 0
    /\ ram[2] = 12
    /\ v[0] = 10
    /\ v[1] = 11
    /\ \A k \in 2..(NREGS - 1) : v[k] = 0

\* C17: 7XNN sets V[X] to (V[X] + NN) mod 256 for every X and NN (0xFF + 1
\* gives 0) and changes no other register: no carry is written to V[F].
C17_AddImmediateWraps ==
    [][(Executes("execute") /\ OpOf(last'.instruction) = 7)
          => LET x == XOf(last'.instruction)
                 nn == NNOf(last'.instruction)
             IN  /\ v'[x] = (v[x] + nn) % 256
                 /\ (v[x] = 255 /\ nn = 1) => v'[x] = 0
                 /\ \A k \in 0..(NREGS - 1) : k # x => v'[k] = v[k]]_vars

\* C17 witness: 7001 on V0 = 0xFF has left V0 = 0 and V[F] as it was.
C17_Witness ==
    /\ last.op = "execute"
    /\ last.instruction = 28673
    /\ v[0] = 0
    /\ v[1] = 16
    /\ v[15] = 254

\* C18: 6XNN on a machine that is not halted sets V[X] to NN, advances PC
\* by 2 and leaves the other registers, I, sp, the stack, the timers, the
\* memory and the display unchanged, for every X and NN.
C18_SetImmediate ==
    [][(Executes("execute") /\ OpOf(last'.instruction) = 6)
          => LET x == XOf(last'.instruction)
             IN  /\ v'[x] = NNOf(last'.instruction)
                 /\ pc' = pc + 2
                 /\ \A k \in 0..(NREGS - 1) : k # x => v'[k] = v[k]
                 /\ UNCHANGED <<i, sp, stack, delay, sound, ram, p>>]_vars

\* C18 witness: 6A9F inside the call has set VA to 0x9F and PC to 0x206.
C18_Witness ==
    /\ last.op = "execute"
    /\ last.instruction = 27295
    /\ v[10] = 159
    /\ pc = ROM_OFFSET + 6
    /\ sp = 1
    /\ delay = 9

\* max(a, 0)
C19_Clamped(a) == IF a > 0 THEN a ELSE 0

\* C19: a tick takes 1 from each timer that is above 0 and leaves a timer
\* at 0 where it is; any other step changes the delay timer only as FX15
\* (to V[X]) and the sound timer only as FX18 (to V[X]); the delay timer is
\* always max(v - k, 0), v the value FX15 loaded last and k the ticks
\* since, and that is what FX07 reads into V[X].
C19_TimersClampAtZero ==
    [][/\ last'.op = "tick"
            => /\ delay' = C19_Clamped(delay - 1)
               /\ sound' = C19_Clamped(sound - 1)
       /\ (last'.op # "tick" /\ delay' # delay)
            => /\ Executes("execute")
               /\ OpOf(last'.instruction) = 15 /\ NNOf(last'.instruction) = 21
               /\ delay' = v[XOf(last'.instruction)]
       /\ (last'.op # "tick" /\ sound' # sound)
            => /\ Executes("execute")
               /\ OpOf(last'.instruction) = 15 /\ NNOf(last'.instruction) = 24
               /\ sound' = v[XOf(last'.instruction)]
       /\ delay' = C19_Clamped(timed'.value - timed'.ticks)
       /\ (Executes("execute") /\ OpOf(last'.instruction) = 15
                /\ NNOf(last'.instruction) = 7)
            => v'[XOf(last'.instruction)] = C19_Clamped(timed.value - timed.ticks)]_vars

\* C19 witness: the timer was loaded with 1, two ticks followed, and F007
\* has read 0.
C19_Witness ==
    /\ timed = Timed(1, 2)
    /\ last.op = "execute"
    /\ last.instruction = 61447
    /\ v[0] = 0
    /\ v[1] = 1
    /\ delay = 0
    /\ sound = 0

\* C20: the iteration of the loop whose cpu_execute sets HALT leaves the
\* loop without counting the cycle and without a tick, and nothing happens
\* after it: no fetch, no execute, no poll of the keys, no tick.
C20_LoopStopsOnHalt ==
    [][/\ (last'.op = "loop" /\ ~halt /\ halt')
            => /\ ~running'
               /\ cycles' = cycles
               /\ timed' = timed
               /\ delay' = delay
               /\ sound' = sound
       /\ halt => (~running /\ machine' = machine /\ cycles' = cycles /\ timed' = timed)]_vars

\* C20 witness: the 256th iteration on 2200 set HALT where the 256th cycle
\* would have ticked; the loop was left after 255 cycles and 31 ticks.
C20_Witness ==
    /\ RomLoaded(SelfCallRom)
    /\ halt
    /\ ~running
    /\ last.op = "loop"
    /\ cycles = 255
    /\ timed = Timed(0, 31)

\* C21: cpu_reset on any machine leaves PC = 0x200, the 16 registers, I,
\* sp, every stack entry, both timers and the latch 0, and HALT false; and
\* HALT, once set, is cleared by no step other than a reset.
C21_ResetState ==
    [][/\ last'.op = "reset"
            => /\ pc' = 512
               /\ \A r \in 0..15 : v'[r] = 0
               /\ i' = 0
               /\ sp' = 0
               /\ \A k \in DOMAIN stack' : stack'[k] = 0
               /\ DOMAIN stack' = 0..254
               /\ delay' = 0
               /\ sound' = 0
               /\ input' = 0
               /\ ~halt'
       /\ (halt /\ ~halt') => last'.op = "reset"]_vars

\* C21 witness: the machine halted by 0000 at PC 0x202 was reset.
C21_Witness ==
    /\ last.op = "reset"
    /\ last.args = <<TRUE, 514>>
    /\ ~halt
    /\ pc = 512
    /\ v[1] = 0

\* The columns the byte b covers when drawn at column x: bit 7 is column x.
C22_Columns(b, x) ==
    {x + 7 - k : k \in {q \in 0..7 : (b \div (2^q)) % 2 = 1}} \cap (0..(DISPLAY_W - 1))

C23_DrawRowShiftsAndDrops ==
    [][last'.op = "draw_row"
          => LET b == last'.args[1]
                 x == last'.args[2]
                 y == last'.args[3]
                 image == {x + 7 - k : k \in {q \in 0..7 : (b \div (2^q)) % 2 = 1}}
                              \cap (0..63)
             IN  /\ p'[y] = (p[y] \ image) \cup (image \ p[y])
                 /\ last'.ret <=> WordGt(p[y], p'[y])
                 /\ \A r \in 0..31 : r # y => p'[r] = p[r]]_vars

\* The skips C24 lists: 3XNN with V[X] = NN, 4XNN with V[X] # NN, EXA1 with
\* key V[X] not held in the latch.
C24_SkipTaken(w) ==
    \/ OpOf(w) = 3 /\ v[XOf(w)] = NNOf(w)
    \/ OpOf(w) = 4 /\ v[XOf(w)] # NNOf(w)
    \/ /\ OpOf(w) = 14 /\ NNOf(w) = 161
       /\ ~(v[XOf(w)] < 16 /\ KeyHeld(input, v[XOf(w)]))

\* C24 as claimed: an instruction that neither halts nor ends the process
\* leaves PC = NNN if it is 1NNN or 2NNN (2NNN with its own address stored
\* at stack[sp]), and otherwise, 00EE apart, advances PC by 4 if one of the
\* listed skips is taken and by 2 if not.
C24_PcRule ==
    [][(Executes("execute") /\ ~halt' /\ ~exited')
          => LET w == last'.instruction
             IN  IF OpOf(w) \in {1, 2}
                 THEN /\ pc' = NNNOf(w)
                      /\ OpOf(w) = 2 => stack'[sp] = pc
                 ELSE w # RETURN_WORD
                         => pc' = pc + (IF C24_SkipTaken(w) THEN 4 ELSE 2)]_vars

\* C25 as claimed: a cpu_execute changes the memory only if it is FX33, and
\* then at most at I, I + 1 and I + 2; it changes the display only if it is
\* DXYN; a tick changes neither.
C25_Frame ==
    [][/\ (last'.op = "execute" /\ ram' # ram)
            => /\ OpOf(last'.instruction) = 15 /\ NNOf(last'.instruction) = 51
               /\ \A a \in 0..(RAM_SIZE - 1) :
                     ram'[a] # ram[a] => a \in {i, i + 1, i + 2}
       /\ (last'.op = "execute" /\ p' # p) => OpOf(last'.instruction) = 13
       /\ last'.op = "tick" => (ram' = ram /\ p' = p)]_vars

\* The iteration forms an address past the memory: the fetch at PC, or the
\* instruction fetched with I at the end of the memory.
C26_AddressPastMemory ==
    \/ pc + 1 >= RAM_SIZE
    \/ LET w == last'.instruction
       IN  \/ OpOf(w) = 15 /\ NNOf(w) = 51 /\ i + 2 >= RAM_SIZE
           \/ OpOf(w) = 15 /\ NNOf(w) = 101 /\ i + XOf(w) >= RAM_SIZE
           \/ OpOf(w) = 13 /\ NOf(w) > 0 /\ i + NOf(w) - 1 >= RAM_SIZE

\* C26: an iteration of the loop that forms an address >= 4096 (in the
\* fetch, in FX33, FX65 or DXYN) ends the process and does not set HALT;
\* nothing is read from or written to low memory in place of the address:
\* the memory changes at most at I.. below 4096, a register changes only
\* to the byte at I + k below 4096; and a terminated process does nothing.
C26_AddressFaultIsFatal ==
    [][/\ (Executes("loop") /\ C26_AddressPastMemory)
            => /\ exited'
               /\ ~halt'
               /\ pc' = pc
               /\ \A a \in 0..(RAM_SIZE - 1) :
                     ram'[a] # ram[a] => (a >= i /\ a <= i + 2)
               /\ \A k \in 0..(NREGS - 1) :
                     v'[k] # v[k] => (i + k < RAM_SIZE /\ v'[k] = ram[i + k])
       /\ exited => UNCHANGED <<machine, cycles>>]_vars

\* C26 witness: F033 with I = 0xFFE and V0 = 123 wrote 1 and 2 to the last
\* two bytes and ended the process at the third; address 0 is untouched.
C26_Witness ==
    /\ RomLoaded(BcdAtEndRom)
    /\ exited
    /\ ~halt
    /\ last.instruction = 61491
    /\ ram[4094] = 1
    /\ ram[4095] = 2
    /\ ram[0] = 0
    /\ pc = 516

\* C27: I never exceeds 0xFFF; a step changes I only as ANNN (to NNN) or as
\* FX29 (to 0x100 + 6 * V[X], at most 0x6FA), so I + h for h up to 15 stays
\* below 0x1010.
C27_IndexInRange ==
    [][/\ i <= 4095
       /\ i' <= 4095
       /\ i' + 15 < 4112
       /\ i' # i
            => /\ Executes("execute")
               /\ \/ /\ OpOf(last'.instruction) = 10
                     /\ i' = NNNOf(last'.instruction)
                  \/ /\ OpOf(last'.instruction) = 15
                     /\ NNOf(last'.instruction) = 41
                     /\ i' = 256 + 6 * v[XOf(last'.instruction)]
                     /\ i' <= 1786]_vars

\* C27 witness: F029 with V0 = 255 has set I to 0x6FA.
C27_Witness ==
    /\ last.op = "execute"
    /\ last.instruction = 61481
    /\ v[0] = 255
    /\ i = 1786

====
